---- MODULE Spec2Model ----
(***************************************************************************)
(* A model of jaeger_client/span.py: one Span object operated on by        *)
(* several threads.  Every method is split at the points where another     *)
(* thread can observe or change shared state: reads of self.context made   *)
(* without the lock, acquisition and release of update_lock, and each      *)
(* statement inside a critical section.                                    *)
(***************************************************************************)
EXTENDS Integers, Sequences, FiniteSets, TLC

(* ---------------------------------------------------------------- bounds *)
NThreads == 2
MaxCalls == 2

Threads == 1..NThreads
\* What time.time() returns, and the explicit timestamps callers pass.
Clock == {1}
Times == {2}
\* An absent (None) or zero timestamp; both are falsy in "x or time.time()".
NoTime == 0

(* ------------------------------------------------------------- constants *)
SAMPLED_FLAG == 1
DEBUG_FLAG == 2
SAMPLING_PRIORITY == "sampling.priority"

(* ----------------------------------------------------------------- flags *)
RECURSIVE BitAnd(_, _)
BitAnd(a, b) ==
  IF a = 0 \/ b = 0 THEN 0
  ELSE (a % 2) * (b % 2) + 2 * BitAnd(a \div 2, b \div 2)

RECURSIVE BitOr(_, _)
BitOr(a, b) ==
  IF a = 0 THEN b
  ELSE IF b = 0 THEN a
  ELSE (IF a % 2 = 1 \/ b % 2 = 1 THEN 1 ELSE 0) + 2 * BitOr(a \div 2, b \div 2)

\* a & ~mask
BitClear(a, mask) == a - BitAnd(a, mask)

FlagsSampled(f) == BitAnd(f, SAMPLED_FLAG) = SAMPLED_FLAG
FlagsDebug(f) == BitAnd(f, DEBUG_FLAG) = DEBUG_FLAG

(* ---------------------------------------------------------------- values *)
\* Python values handed to set_tag / set_baggage_item: an int, a str (a
\* sequence of characters) or None.
IntV(n) == [kind |-> "int", n |-> n, s |-> <<>>]
StrV(s) == [kind |-> "str", n |-> 0, s |-> s]
NoneV == [kind |-> "none", n |-> 0, s |-> <<>>]

\* bool(value)
Truthy(v) ==
  CASE v.kind = "int" -> v.n # 0
    [] v.kind = "str" -> Len(v.s) > 0
    [] OTHER -> FALSE

Digits == {"0", "1", "2", "3", "4", "5", "6", "7", "8", "9"}
DigitVal(c) ==
  CASE c = "0" -> 0 [] c = "1" -> 1 [] c = "2" -> 2 [] c = "3" -> 3
    [] c = "4" -> 4 [] c = "5" -> 5 [] c = "6" -> 6 [] c = "7" -> 7
    [] c = "8" -> 8 [] OTHER -> 9

RECURSIVE DigitsToInt(_)
DigitsToInt(s) ==
  IF Len(s) = 0 THEN 0
  ELSE 10 * DigitsToInt(SubSeq(s, 1, Len(s) - 1)) + DigitVal(s[Len(s)])

IsNumeral(s) == Len(s) > 0 /\ \A i \in 1..Len(s) : s[i] \in Digits

\* int(value): the number, or the exception int() raises.
IntOf(v) ==
  CASE v.kind = "int" -> [exc |-> "none", n |-> v.n]
    [] v.kind = "str" ->
         IF IsNumeral(v.s) THEN [exc |-> "none", n |-> DigitsToInt(v.s)]
         ELSE IF Len(v.s) > 1 /\ v.s[1] \in {"-", "+"} /\ IsNumeral(Tail(v.s))
         THEN [exc |-> "none",
               n |-> IF v.s[1] = "-" THEN 0 - DigitsToInt(Tail(v.s))
                     ELSE DigitsToInt(Tail(v.s))]
         ELSE [exc |-> "ValueError", n |-> 0]
    [] OTHER -> [exc |-> "TypeError", n |-> 0]

\* The (key, value) pairs set_tag is called with: the reserved key with
\* integers, numeric and non-numeric strings and None; an ordinary key.
PriorityValues == {IntV(0), IntV(1), StrV(<<"0">>), StrV(<<"a">>), NoneV}
OrdinaryValues == {IntV(1), StrV(<<"a">>)}
TagArgs == ({SAMPLING_PRIORITY} \X PriorityValues) \cup ({"a"} \X OrdinaryValues)
\* The (key, value) pairs set_baggage_item is called with: None, an empty
\* and a non-empty string for one key, and a second key.
BagKeys == {"k1", "k2"}
BagArgs == ({"k1"} \X {NoneV, StrV(<<>>), StrV(<<"a">>)})
             \cup ({"k2"} \X {StrV(<<"a">>)})
LogEvents == {"e1"}
OpNames == {"op2"}

(* ----------------------------------------------------------------- state *)
VARIABLES
  ctxs,            \* the SpanContext objects allocated so far: [flags, baggage]
  context,         \* self._context: index into ctxs
  operation_name,  \* self.operation_name
  end_time,        \* self.end_time (NoTime: None)
  finished,        \* self.finished
  tags,            \* self.tags
  logs,            \* self.logs
  update_lock,     \* self.update_lock: 0 when free, else the holding thread
  reports,         \* number of tracer.report_span(self) invocations
  pc,              \* per thread: position in the method it is executing
  frame,           \* per thread: arguments and locals of that method
  calls,           \* history: one record per call issued, indexed by call id
  flags0           \* history: the flags the span was created with

vars == <<ctxs, context, operation_name, end_time, finished, tags, logs,
          update_lock, reports, pc, frame, calls, flags0>>

NoLog == [timestamp |-> NoTime, event |-> "", key |-> "", value |-> NoneV,
          override |-> FALSE, id |-> 0]

NoFrame == [cid |-> 0, op |-> "", key |-> "", val |-> NoneV, tm |-> NoTime,
            prev |-> NoneV, octx |-> 0, nctx |-> 0, log |-> NoLog,
            exc |-> "none", race |-> FALSE, asked |-> ""]

EmptyBaggage == [k \in BagKeys |-> NoneV]

\* self.context
Ctx == ctxs[context]

\* Span.is_sampled / Span.is_debug
IsSampled == FlagsSampled(Ctx.flags)
IsDebug == FlagsDebug(Ctx.flags)

\* The tracer creates a context unsampled, sampled, or sampled and debug.
InitFlags == {0, SAMPLED_FLAG, BitOr(SAMPLED_FLAG, DEBUG_FLAG)}

Init ==
  /\ flags0 \in InitFlags
  /\ ctxs = <<[flags |-> flags0, baggage |-> EmptyBaggage]>>
  /\ context = 1
  /\ operation_name = "op1"
  /\ end_time = NoTime
  /\ finished = FALSE
  /\ tags = <<>>
  /\ logs = <<>>
  /\ update_lock = 0
  /\ reports = 0
  /\ pc = [t \in Threads |-> "idle"]
  /\ frame = [t \in Threads |-> NoFrame]
  /\ calls = <<>>

(* ------------------------------------------------------- call bookkeeping *)
\* A thread that is not inside a method issues the next call.  Threads
\* keep nothing between calls, so idle threads are interchangeable: the
\* call is given to the lowest-numbered idle thread.
CanCall(t) ==
  /\ pc[t] = "idle"
  /\ Len(calls) < MaxCalls
  /\ \A u \in Threads : u < t => pc[u] # "idle"

NewCall(op, key, val) ==
  [op |-> op, key |-> key, val |-> val, out |-> "running", done |-> FALSE]

\* The call record of thread t with its outcome set.
Outcome(t, out) == [calls EXCEPT ![frame[t].cid].out = out]
Returned(cs, t) == [cs EXCEPT ![frame[t].cid].done = TRUE]

Return(t) ==
  /\ pc' = [pc EXCEPT ![t] = "idle"]
  /\ frame' = [frame EXCEPT ![t] = NoFrame]

(* ------------------------------------------------ Span.set_operation_name *)
\* line 65: the call is issued; the thread goes on to "with self.update_lock".
SetOperationName(t) ==
  /\ CanCall(t)
  /\ \E name \in OpNames :
       /\ frame' = [frame EXCEPT ![t] =
                      [NoFrame EXCEPT !.cid = Len(calls) + 1,
                                      !.op = "set_operation_name",
                                      !.key = name]]
       /\ calls' = Append(calls, NewCall("set_operation_name", name, NoneV))
  /\ pc' = [pc EXCEPT ![t] = "son_lock"]
  /\ UNCHANGED <<ctxs, context, operation_name, end_time, finished, tags,
                 logs, update_lock, reports, flags0>>

\* line 72: with self.update_lock (blocks while another thread holds it).
\* set_operation_name entering its body without taking the lock.
SonAcquire_NoLock(t) ==
  /\ pc[t] = "son_lock"
  /\ pc' = [pc EXCEPT ![t] = "son_set"]
  /\ UNCHANGED <<ctxs, context, operation_name, end_time, finished, tags,
                 logs, update_lock, reports, frame, calls, flags0>>

SonAcquire(t) ==
  /\ pc[t] = "son_lock"
  /\ update_lock = 0
  /\ update_lock' = t
  /\ pc' = [pc EXCEPT ![t] = "son_set"]
  /\ UNCHANGED <<ctxs, context, operation_name, end_time, finished, tags,
                 logs, reports, frame, calls, flags0>>

\* line 73: self.operation_name = operation_name
SonSet(t) ==
  /\ pc[t] = "son_set"
  /\ operation_name' = frame[t].key
  /\ pc' = [pc EXCEPT ![t] = "son_exit"]
  /\ UNCHANGED <<ctxs, context, end_time, finished, tags, logs, update_lock,
                 reports, frame, calls, flags0>>

\* lines 72-74: leaving the with block releases the lock; return self.
SonExit(t) ==
  /\ pc[t] = "son_exit"
  /\ update_lock' = 0
  /\ calls' = Returned(Outcome(t, "ok"), t)
  /\ Return(t)
  /\ UNCHANGED <<ctxs, context, operation_name, end_time, finished, tags,
                 logs, reports, flags0>>

(* ------------------------------------------------------------ Span.finish *)
\* Finish with the is_sampled() fast path left out.
Finish_NoSampledCheck(t) ==
  /\ CanCall(t)
  /\ \E ft \in {NoTime} \cup Times :
       /\ calls' = Append(calls, NewCall("finish", "", NoneV))
       /\ frame' = [frame EXCEPT ![t] =
                      [NoFrame EXCEPT !.cid = Len(calls) + 1,
                                      !.op = "finish", !.tm = ft]]
       /\ pc' = [pc EXCEPT ![t] = "fin_lock"]
  /\ UNCHANGED <<ctxs, context, operation_name, end_time, finished, tags,
                 logs, update_lock, reports, flags0>>

\* lines 76, 86-87: the call is issued and reads is_sampled() without the
\* lock; an unsampled span returns at once.
Finish(t) ==
  /\ CanCall(t)
  /\ \E ft \in {NoTime} \cup Times :
       IF ~IsSampled
       THEN /\ calls' = Append(calls, [NewCall("finish", "", NoneV) EXCEPT
                                         !.out = "unsampled", !.done = TRUE])
            /\ UNCHANGED <<pc, frame>>
       ELSE /\ calls' = Append(calls, NewCall("finish", "", NoneV))
            /\ frame' = [frame EXCEPT ![t] =
                           [NoFrame EXCEPT !.cid = Len(calls) + 1,
                                           !.op = "finish", !.tm = ft]]
            /\ pc' = [pc EXCEPT ![t] = "fin_lock"]
  /\ UNCHANGED <<ctxs, context, operation_name, end_time, finished, tags,
                 logs, update_lock, reports, flags0>>

\* line 89: with self.update_lock
FinAcquire(t) ==
  /\ pc[t] = "fin_lock"
  /\ update_lock = 0
  /\ update_lock' = t
  /\ pc' = [pc EXCEPT ![t] = "fin_chk"]
  /\ UNCHANGED <<ctxs, context, operation_name, end_time, finished, tags,
                 logs, reports, frame, calls, flags0>>

\* FinCheckFinished with the test of self.finished left out.
FinCheckFinished_NoCheck(t) ==
  /\ pc[t] = "fin_chk"
  /\ finished' = TRUE
  /\ calls' = Outcome(t, "finishing")
  /\ pc' = [pc EXCEPT ![t] = "fin_end"]
  /\ UNCHANGED <<ctxs, context, operation_name, end_time, tags, logs,
                 update_lock, reports, frame, flags0>>

\* lines 90-93: if self.finished: warn and return; else self.finished = True
\* finish stamping end_time again on a span that is already finished.
FinCheckFinished_Restamp(t) ==
  /\ pc[t] = "fin_chk"
  /\ IF finished
     THEN /\ calls' = Outcome(t, "already")
          /\ pc' = [pc EXCEPT ![t] = "fin_end"]
          /\ UNCHANGED finished
     ELSE /\ finished' = TRUE
          /\ calls' = Outcome(t, "finishing")
          /\ pc' = [pc EXCEPT ![t] = "fin_end"]
  /\ UNCHANGED <<ctxs, context, operation_name, end_time, tags, logs,
                 update_lock, reports, frame, flags0>>

FinCheckFinished(t) ==
  /\ pc[t] = "fin_chk"
  /\ IF finished
     THEN /\ calls' = Outcome(t, "already")
          /\ pc' = [pc EXCEPT ![t] = "fin_exit"]
          /\ UNCHANGED finished
     ELSE /\ finished' = TRUE
          /\ calls' = Outcome(t, "finishing")
          /\ pc' = [pc EXCEPT ![t] = "fin_end"]
  /\ UNCHANGED <<ctxs, context, operation_name, end_time, tags, logs,
                 update_lock, reports, frame, flags0>>

\* line 94: self.end_time = finish_time or time.time()
FinSetEnd(t) ==
  /\ pc[t] = "fin_end"
  /\ \E now \in Clock :
       end_time' = IF frame[t].tm # NoTime THEN frame[t].tm ELSE now
  /\ pc' = [pc EXCEPT ![t] = "fin_exit"]
  /\ UNCHANGED <<ctxs, context, operation_name, finished, tags, logs,
                 update_lock, reports, frame, calls, flags0>>

\* finish calling report_span from inside the with block: the lock is
\* still held at line 96.
FinExit_ReportInsideLock(t) ==
  /\ pc[t] = "fin_exit"
  /\ IF calls[frame[t].cid].out = "already"
     THEN /\ update_lock' = 0
          /\ calls' = Returned(calls, t)
          /\ Return(t)
     ELSE /\ pc' = [pc EXCEPT ![t] = "fin_report"]
          /\ UNCHANGED <<update_lock, frame, calls>>
  /\ UNCHANGED <<ctxs, context, operation_name, end_time, finished, tags,
                 logs, reports, flags0>>

\* lines 89-95: leaving the with block releases the lock; the "already
\* finished" path returns from inside it, the other goes on to line 96.
FinExit(t) ==
  /\ pc[t] = "fin_exit"
  /\ update_lock' = 0
  /\ IF calls[frame[t].cid].out = "already"
     THEN /\ calls' = Returned(calls, t)
          /\ Return(t)
     ELSE /\ pc' = [pc EXCEPT ![t] = "fin_report"]
          /\ UNCHANGED <<frame, calls>>
  /\ UNCHANGED <<ctxs, context, operation_name, end_time, finished, tags,
                 logs, reports, flags0>>

\* line 96: self.tracer.report_span(self)
FinReport(t) ==
  /\ pc[t] = "fin_report"
  /\ reports' = reports + 1
  /\ calls' = Returned(Outcome(t, "reported"), t)
  /\ Return(t)
  /\ UNCHANGED <<ctxs, context, operation_name, end_time, finished, tags,
                 logs, update_lock, flags0>>

(* ----------------------------------------------------------- Span.set_tag *)
\* thrift.make_tag(key, value, ...): a new Tag object for this key and value.
MakeTag(key, value, id) == [key |-> key, value |-> value, id |-> id]

\* Variants of _set_sampling_priority, each with one slip: guard tells
\* whether the debug guard of line 122 is there, zero which values take the
\* flag-clearing branch, and denied what is returned when is_debug_allowed
\* answers false.
PriorityVariant(f, value, allowed, guard, zero, denied) ==
  IF guard /\ FlagsDebug(f) /\ Truthy(value)
  THEN [flags |-> f, ret |-> FALSE, exc |-> "none", path |-> "debug_guard"]
  ELSE LET r == IntOf(value) IN
    IF r.exc = "ValueError"
    THEN [flags |-> f, ret |-> FALSE, exc |-> "none", path |-> "value_error"]
    ELSE IF r.exc # "none"
    THEN [flags |-> f, ret |-> FALSE, exc |-> r.exc, path |-> "raised"]
    ELSE IF zero
    THEN [flags |-> BitClear(f, BitOr(SAMPLED_FLAG, DEBUG_FLAG)),
          ret |-> FALSE, exc |-> "none", path |-> "zero"]
    ELSE IF allowed
    THEN [flags |-> BitOr(f, BitOr(SAMPLED_FLAG, DEBUG_FLAG)),
          ret |-> TRUE, exc |-> "none", path |-> "allowed"]
    ELSE [flags |-> f, ret |-> denied, exc |-> "none", path |-> "denied"]

\* returns True also when is_debug_allowed refuses
SetSamplingPriority_DeniedTrue(f, value, allowed) ==
  PriorityVariant(f, value, allowed, TRUE, IntOf(value).n = 0, TRUE)

\* tests the truth value of the argument instead of the parsed number
SetSamplingPriority_TruthyTest(f, value, allowed) ==
  PriorityVariant(f, value, allowed, TRUE, ~Truthy(value), FALSE)

\* without the debug guard of line 122
SetSamplingPriority_NoDebugGuard(f, value, allowed) ==
  PriorityVariant(f, value, allowed, FALSE, IntOf(value).n = 0, FALSE)

\* lines 116-135: Span._set_sampling_priority on a context whose flags are
\* f; allowed is the answer tracer.is_debug_allowed would give.  The result
\* is the flags afterwards, the value returned, the exception that escapes
\* and the statement the method left by.
\* _set_sampling_priority elevating without regard to the tracer's answer.
SetSamplingPriority_IgnoreAllowed(f, value, allowed) ==
  PriorityVariant(f, value, TRUE, TRUE, IntOf(value).n = 0, FALSE)

SetSamplingPriority(f, value, allowed) ==
  IF FlagsDebug(f) /\ Truthy(value)
  THEN [flags |-> f, ret |-> FALSE, exc |-> "none", path |-> "debug_guard"]
  ELSE LET r == IntOf(value) IN
    IF r.exc = "ValueError"
    THEN [flags |-> f, ret |-> FALSE, exc |-> "none", path |-> "value_error"]
    ELSE IF r.exc # "none"
    THEN [flags |-> f, ret |-> FALSE, exc |-> r.exc, path |-> "raised"]
    ELSE IF r.n = 0
    THEN [flags |-> BitClear(f, BitOr(SAMPLED_FLAG, DEBUG_FLAG)),
          ret |-> FALSE, exc |-> "none", path |-> "zero"]
    ELSE IF allowed
    THEN [flags |-> BitOr(f, BitOr(SAMPLED_FLAG, DEBUG_FLAG)),
          ret |-> TRUE, exc |-> "none", path |-> "allowed"]
    ELSE [flags |-> f, ret |-> FALSE, exc |-> "none", path |-> "denied"]

\* line 98: the call is issued.
SetTag(t) ==
  /\ CanCall(t)
  /\ \E arg \in TagArgs :
       /\ frame' = [frame EXCEPT ![t] =
                      [NoFrame EXCEPT !.cid = Len(calls) + 1, !.op = "set_tag",
                                      !.key = arg[1], !.val = arg[2]]]
       /\ calls' = Append(calls, NewCall("set_tag", arg[1], arg[2]))
  /\ pc' = [pc EXCEPT ![t] = "st_lock"]
  /\ UNCHANGED <<ctxs, context, operation_name, end_time, finished, tags,
                 logs, update_lock, reports, flags0>>

\* line 103: with self.update_lock; line 104 then tests the key.
StAcquire(t) ==
  /\ pc[t] = "st_lock"
  /\ update_lock = 0
  /\ update_lock' = t
  /\ pc' = [pc EXCEPT ![t] = IF frame[t].key = SAMPLING_PRIORITY
                             THEN "st_prio" ELSE "st_samp"]
  /\ UNCHANGED <<ctxs, context, operation_name, end_time, finished, tags,
                 logs, reports, frame, calls, flags0>>

\* lines 104-105: key == SAMPLING_PRIORITY and not _set_sampling_priority(value)
StPriority(t) ==
  /\ pc[t] = "st_prio"
  /\ \E allowed \in BOOLEAN :
       LET r == SetSamplingPriority(Ctx.flags, frame[t].val, allowed) IN
         /\ ctxs' = [ctxs EXCEPT ![context].flags = r.flags]
         /\ frame' = [frame EXCEPT ![t].exc = r.exc,
                                   ![t].asked =
                                     IF r.path \in {"allowed", "denied"}
                                     THEN IF allowed THEN "yes" ELSE "no"
                                     ELSE ""]
         /\ calls' = Outcome(t, r.path)
         /\ pc' = [pc EXCEPT ![t] = IF r.exc = "none" /\ r.ret
                                    THEN "st_samp" ELSE "st_exit"]
  /\ UNCHANGED <<context, operation_name, end_time, finished, tags, logs,
                 update_lock, reports, flags0>>

\* StAppend with the tag put in front of the list.
StAppend_Prepend(t) ==
  /\ pc[t] = "st_samp"
  /\ IF IsSampled
     THEN /\ tags' = <<MakeTag(frame[t].key, frame[t].val, frame[t].cid)>>
                       \o tags
          /\ calls' = IF frame[t].key = SAMPLING_PRIORITY THEN calls
                      ELSE Outcome(t, "sampled")
     ELSE /\ tags' = tags
          /\ calls' = Outcome(t, "unsampled")
  /\ pc' = [pc EXCEPT ![t] = "st_exit"]
  /\ UNCHANGED <<ctxs, context, operation_name, end_time, finished, logs,
                 update_lock, reports, frame, flags0>>

\* StAppend without the is_sampled() test.
StAppend_NoSampledCheck(t) ==
  /\ pc[t] = "st_samp"
  /\ tags' = Append(tags, MakeTag(frame[t].key, frame[t].val, frame[t].cid))
  /\ calls' = IF frame[t].key = SAMPLING_PRIORITY THEN calls
              ELSE Outcome(t, "sampled")
  /\ pc' = [pc EXCEPT ![t] = "st_exit"]
  /\ UNCHANGED <<ctxs, context, operation_name, end_time, finished, logs,
                 update_lock, reports, frame, flags0>>

\* StAppend assigning a one-element list instead of appending.
StAppend_Overwrite(t) ==
  /\ pc[t] = "st_samp"
  /\ IF IsSampled
     THEN /\ tags' = <<MakeTag(frame[t].key, frame[t].val, frame[t].cid)>>
          /\ calls' = IF frame[t].key = SAMPLING_PRIORITY THEN calls
                      ELSE Outcome(t, "sampled")
     ELSE /\ tags' = tags
          /\ calls' = Outcome(t, "unsampled")
  /\ pc' = [pc EXCEPT ![t] = "st_exit"]
  /\ UNCHANGED <<ctxs, context, operation_name, end_time, finished, logs,
                 update_lock, reports, frame, flags0>>

\* lines 106-113: if self.is_sampled(): self.tags.append(make_tag(...))
StAppend(t) ==
  /\ pc[t] = "st_samp"
  /\ IF IsSampled
     THEN /\ tags' = Append(tags, MakeTag(frame[t].key, frame[t].val,
                                           frame[t].cid))
          /\ calls' = IF frame[t].key = SAMPLING_PRIORITY THEN calls
                      ELSE Outcome(t, "sampled")
     ELSE /\ tags' = tags
          /\ calls' = Outcome(t, "unsampled")
  /\ pc' = [pc EXCEPT ![t] = "st_exit"]
  /\ UNCHANGED <<ctxs, context, operation_name, end_time, finished, logs,
                 update_lock, reports, frame, flags0>>

\* lines 103-114: leaving the with block (by return or by an exception that
\* propagates) releases the lock; the call returns self or raises.
\* set_tag leaving the with block without releasing the lock when
\* _set_sampling_priority has raised.
StExit_KeepLockOnRaise(t) ==
  /\ pc[t] = "st_exit"
  /\ update_lock' = IF frame[t].exc # "none" THEN update_lock ELSE 0
  /\ calls' = Returned(calls, t)
  /\ Return(t)
  /\ UNCHANGED <<ctxs, context, operation_name, end_time, finished, tags,
                 logs, reports, flags0>>

StExit(t) ==
  /\ pc[t] = "st_exit"
  /\ update_lock' = 0
  /\ calls' = Returned(calls, t)
  /\ Return(t)
  /\ UNCHANGED <<ctxs, context, operation_name, end_time, finished, tags,
                 logs, reports, flags0>>

(* ------------------------------------------------------------ Span.log_kv *)
\* thrift.make_log(timestamp, fields, ...): a new Log object.  The fields
\* dict is kept as its entries: event, key, value and whether it has the
\* 'override' entry.
MakeLog(timestamp, fields, id) ==
  [timestamp |-> timestamp, event |-> fields.event, key |-> fields.key,
   value |-> fields.value, override |-> fields.override, id |-> id]

\* lines 138-146 of log_kv, run by thread t for the dict fields: the
\* unlocked is_sampled() test, then the Log object is built.
LogKvBody(t, cid, fields, ts, now, cs) ==
  IF ~IsSampled
  THEN /\ calls' = [cs EXCEPT ![cid].out = "unsampled", ![cid].done = TRUE]
       /\ Return(t)
  ELSE /\ calls' = [cs EXCEPT ![cid].out = "sampled"]
       /\ frame' = [frame EXCEPT ![t].cid = cid,
                      ![t].op = IF frame[t].op = "" THEN "log_kv"
                                ELSE frame[t].op,
                      ![t].log = MakeLog(IF ts # NoTime THEN ts ELSE now,
                                         fields, cid)]
       /\ pc' = [pc EXCEPT ![t] = "log_lock"]

\* lines 137-146: the call is issued by the application.
LogKv(t) ==
  /\ CanCall(t)
  /\ \E ev \in LogEvents, ts \in {NoTime} \cup Times, now \in Clock :
       LogKvBody(t, Len(calls) + 1,
                 [event |-> ev, key |-> "", value |-> NoneV,
                  override |-> FALSE],
                 ts, now, Append(calls, NewCall("log_kv", "", NoneV)))
  /\ UNCHANGED <<ctxs, context, operation_name, end_time, finished, tags,
                 logs, update_lock, reports, flags0>>

\* line 147: with self.update_lock
LogAcquire(t) ==
  /\ pc[t] = "log_lock"
  /\ update_lock = 0
  /\ update_lock' = t
  /\ pc' = [pc EXCEPT ![t] = "log_app"]
  /\ UNCHANGED <<ctxs, context, operation_name, end_time, finished, tags,
                 logs, reports, frame, calls, flags0>>

\* line 148: self.logs.append(log)
LogAppend(t) ==
  /\ pc[t] = "log_app"
  /\ logs' = Append(logs, frame[t].log)
  /\ pc' = [pc EXCEPT ![t] = "log_exit"]
  /\ UNCHANGED <<ctxs, context, operation_name, end_time, finished, tags,
                 update_lock, reports, frame, calls, flags0>>

\* lines 147-149: the lock is released and log_kv returns; a
\* set_baggage_item that called it returns right after (line 166).
LogExit(t) ==
  /\ pc[t] = "log_exit"
  /\ update_lock' = 0
  /\ calls' = Returned(calls, t)
  /\ Return(t)
  /\ UNCHANGED <<ctxs, context, operation_name, end_time, finished, tags,
                 logs, reports, flags0>>

(* -------------------------------------------- Span.set_baggage_item etc. *)
\* SpanContext.with_baggage_item(key, value): a new context with the same
\* flags whose baggage has key set to value; value None removes the key.
WithBaggageItem(c, key, value) ==
  [flags |-> c.flags, baggage |-> [c.baggage EXCEPT ![key] = value]]

\* lines 168-169: self.context.baggage.get(key); None when the key is absent.
GetBaggageItem(key) == Ctx.baggage[key]

\* the threads other than t that are inside set_baggage_item
OtherBaggageWriters(t) ==
  {u \in Threads \ {t} : frame[u].op = "set_baggage_item"}

\* lines 151-152: the call is issued; prev_value = self.get_baggage_item(key)
SetBaggageItem(t) ==
  /\ CanCall(t)
  /\ \E arg \in BagArgs :
       /\ frame' = [u \in Threads |->
            IF u = t
            THEN [NoFrame EXCEPT !.cid = Len(calls) + 1,
                                 !.op = "set_baggage_item",
                                 !.key = arg[1], !.val = arg[2],
                                 !.prev = GetBaggageItem(arg[1]),
                                 !.octx = context,
                                 !.race = OtherBaggageWriters(t) # {}]
            ELSE IF u \in OtherBaggageWriters(t)
            THEN [frame[u] EXCEPT !.race = TRUE]
            ELSE frame[u]]
       /\ calls' = Append(calls, NewCall("set_baggage_item", arg[1], arg[2]))
  /\ pc' = [pc EXCEPT ![t] = "sb_new"]
  /\ UNCHANGED <<ctxs, context, operation_name, end_time, finished, tags,
                 logs, update_lock, reports, flags0>>

\* SbNewContext changing the baggage of the current context object in
\* place instead of building a new one.
SbNewContext_InPlace(t) ==
  /\ pc[t] = "sb_new"
  /\ ctxs' = [ctxs EXCEPT ![context] =
                WithBaggageItem(Ctx, frame[t].key, frame[t].val)]
  /\ frame' = [frame EXCEPT ![t].nctx = context]
  /\ pc' = [pc EXCEPT ![t] = "sb_lock"]
  /\ UNCHANGED <<context, operation_name, end_time, finished, tags, logs,
                 update_lock, reports, calls, flags0>>

\* line 153: new_context = self.context.with_baggage_item(key, value)
SbNewContext(t) ==
  /\ pc[t] = "sb_new"
  /\ ctxs' = Append(ctxs, WithBaggageItem(Ctx, frame[t].key, frame[t].val))
  /\ frame' = [frame EXCEPT ![t].nctx = Len(ctxs) + 1]
  /\ pc' = [pc EXCEPT ![t] = "sb_lock"]
  /\ UNCHANGED <<context, operation_name, end_time, finished, tags, logs,
                 update_lock, reports, calls, flags0>>

\* line 154: with self.update_lock
SbAcquire(t) ==
  /\ pc[t] = "sb_lock"
  /\ update_lock = 0
  /\ update_lock' = t
  /\ pc' = [pc EXCEPT ![t] = "sb_swap"]
  /\ UNCHANGED <<ctxs, context, operation_name, end_time, finished, tags,
                 logs, reports, frame, calls, flags0>>

\* line 155: self._context = new_context
SbSwap(t) ==
  /\ pc[t] = "sb_swap"
  /\ context' = frame[t].nctx
  /\ pc' = [pc EXCEPT ![t] = "sb_exit"]
  /\ UNCHANGED <<ctxs, operation_name, end_time, finished, tags, logs,
                 update_lock, reports, frame, calls, flags0>>

\* lines 154-155: leaving the with block releases the lock.
SbExit(t) ==
  /\ pc[t] = "sb_exit"
  /\ update_lock' = 0
  /\ pc' = [pc EXCEPT ![t] = "sb_samp"]
  /\ UNCHANGED <<ctxs, context, operation_name, end_time, finished, tags,
                 logs, reports, frame, calls, flags0>>

\* lines 156-164: if self.is_sampled(): build the audit dict, with the
\* 'override' entry if prev_value is truthy; otherwise return self.
SbCheckSampled(t) ==
  /\ pc[t] = "sb_samp"
  /\ IF ~IsSampled
     THEN /\ calls' = Returned(Outcome(t, "unsampled"), t)
          /\ Return(t)
     ELSE /\ frame' = [frame EXCEPT ![t].log =
                         [NoLog EXCEPT !.event = "baggage",
                                       !.key = frame[t].key,
                                       !.value = frame[t].val,
                                       !.override = Truthy(frame[t].prev)]]
          /\ pc' = [pc EXCEPT ![t] = "sb_log"]
          /\ UNCHANGED calls
  /\ UNCHANGED <<ctxs, context, operation_name, end_time, finished, tags,
                 logs, update_lock, reports, flags0>>

\* line 165: self.log_kv(key_values=logs)
SbLogKv(t) ==
  /\ pc[t] = "sb_log"
  /\ \E now \in Clock :
       LogKvBody(t, frame[t].cid, frame[t].log, NoTime, now, calls)
  /\ UNCHANGED <<ctxs, context, operation_name, end_time, finished, tags,
                 logs, update_lock, reports, flags0>>

(* ------------------------------------------------------------ the program *)
Next ==
  \E t \in Threads :
    \/ SetOperationName(t) \/ SonAcquire(t) \/ SonSet(t) \/ SonExit(t)
    \/ Finish(t) \/ FinAcquire(t) \/ FinCheckFinished(t) \/ FinSetEnd(t)
    \/ FinExit(t) \/ FinReport(t)
    \/ SetTag(t) \/ StAcquire(t) \/ StPriority(t) \/ StAppend(t) \/ StExit(t)
    \/ LogKv(t) \/ LogAcquire(t) \/ LogAppend(t) \/ LogExit(t)
    \/ SetBaggageItem(t) \/ SbNewContext(t) \/ SbAcquire(t) \/ SbSwap(t)
    \/ SbExit(t) \/ SbCheckSampled(t) \/ SbLogKv(t)

Spec == Init /\ [][Next]_vars

\* the steps thread t takes inside a call that has been issued: every
\* action but the five that enter a public method.
Step(t) ==
  \/ SonAcquire(t) \/ SonSet(t) \/ SonExit(t)
  \/ FinAcquire(t) \/ FinCheckFinished(t) \/ FinSetEnd(t)
  \/ FinExit(t) \/ FinReport(t)
  \/ StAcquire(t) \/ StPriority(t) \/ StAppend(t) \/ StExit(t)
  \/ LogAcquire(t) \/ LogAppend(t) \/ LogExit(t)
  \/ SbNewContext(t) \/ SbAcquire(t) \/ SbSwap(t)
  \/ SbExit(t) \/ SbCheckSampled(t) \/ SbLogKv(t)

\* fair scheduling: a thread that can take a step of its call, the
\* acquisition of a free lock included, eventually takes one.
FairSpec == Spec /\ \A t \in Threads : WF_vars(Step(t))

(* ----------------------------------------------------- vocabulary of claims *)
CountId(seq, c) == Cardinality({i \in DOMAIN seq : seq[i].id = c})
IsAppendOf(new, old) == Len(new) = Len(old) + 1 /\ SubSeq(new, 1, Len(old)) = old
CallsWith(op, out) ==
  {c \in DOMAIN calls : calls[c].op = op /\ calls[c].out = out}
\* a call was issued in this step
Issued(op) == Len(calls') = Len(calls) + 1 /\ calls'[Len(calls')].op = op
\* no set_tag on the reserved key has reached the flag-clearing statement
NeverCleared == CallsWith("set_tag", "zero") = {}
\* no set_tag on the reserved key has reached the flag-setting statement
NeverElevated == CallsWith("set_tag", "allowed") = {}
\* int(v) succeeds and is not zero
NonZero(v) == IntOf(v).exc = "none" /\ IntOf(v).n # 0

(* ------------------------------------------------------------------ C1 *)
\* C1: in every interleaving of finish() calls with any other operations,
\* tracer.report_span is invoked at most once; only a call that flipped
\* finished itself gets to the report, and a call that found finished
\* already true reports nothing and raises nothing.
C1_ReportAtMostOnce ==
  /\ reports <= 1
  /\ reports = Cardinality(CallsWith("finish", "reported"))
  /\ \A t \in Threads :
       /\ pc[t] = "fin_report" => calls[frame[t].cid].out = "finishing"
       /\ frame[t].op = "finish" => frame[t].exc = "none"
  /\ \A c \in CallsWith("finish", "already") : finished

\* two finish() calls returned: one reported, the other found the span
\* finished.
C1_Witness ==
  /\ reports = 1
  /\ \E c \in CallsWith("finish", "already") : calls[c].done
  /\ \E c \in CallsWith("finish", "reported") : calls[c].done

(* ------------------------------------------------------------------ C2 *)
C2_Step ==
  (Issued("finish") /\ ~IsSampled) =>
     /\ calls'[Len(calls')].done
     /\ calls'[Len(calls')].out = "unsampled"
     /\ reports' = reports
     /\ finished' = finished
     /\ end_time' = end_time
     /\ UNCHANGED <<ctxs, context, operation_name, tags, logs, update_lock,
                    pc, frame>>

\* C2: a finish() call that finds the span unsampled returns at once, never
\* invokes report_span and changes nothing; on a span that was created
\* unsampled and never elevated, finished stays false and end_time absent
\* whatever is called.
C2_UnsampledFinishNoEffect ==
  /\ [][C2_Step]_vars
  /\ [](~FlagsSampled(flags0) /\ NeverElevated =>
          reports = 0 /\ ~finished /\ end_time = NoTime)

\* finish() has returned on an unsampled span.
C2_Witness ==
  /\ \E c \in CallsWith("finish", "unsampled") : calls[c].done
  /\ ~IsSampled /\ ~finished /\ end_time = NoTime /\ reports = 0

(* ------------------------------------------------------------------ C3 *)
\* C3 as stated: no record of the tag sequence has the sampling-priority
\* key.
C3_Original == \A i \in DOMAIN tags : tags[i].key # SAMPLING_PRIORITY

\* C3, amended: a record with the sampling-priority key is appended only by
\* a set_tag call that elevated the span (a non-zero integer value, granted
\* by is_debug_allowed, on a span not yet in debug mode); every other
\* set_tag call on that key appends nothing.
C3_PriorityTagOnlyOnElevation ==
  /\ \A i \in DOMAIN tags :
       tags[i].key = SAMPLING_PRIORITY =>
         /\ calls[tags[i].id].out = "allowed"
         /\ NonZero(tags[i].value)
  /\ \A c \in DOMAIN calls :
       (calls[c].op = "set_tag" /\ calls[c].key = SAMPLING_PRIORITY
          /\ calls[c].done) =>
         CountId(tags, c) = IF calls[c].out = "allowed" THEN 1 ELSE 0

\* an elevating call has stored its tag, another call on the key has not.
C3_Witness ==
  /\ \E i \in DOMAIN tags : tags[i].key = SAMPLING_PRIORITY
  /\ \E c \in CallsWith("set_tag", "denied") : calls[c].done

(* ------------------------------------------------------------------ C4 *)
\* the span was created sampled and nothing cleared its flags
StaysSampled == FlagsSampled(flags0) /\ NeverCleared

\* C4 as stated: on a sampled span every returned set_tag call has exactly
\* one tag record and every returned log_kv call exactly one log record.
C4_Original ==
  StaysSampled =>
    \A c \in DOMAIN calls :
      /\ (calls[c].op = "set_tag" /\ calls[c].done) => CountId(tags, c) = 1
      /\ (calls[c].op = "log_kv" /\ calls[c].done) => CountId(logs, c) = 1

C4_Counts ==
  /\ \A c \in DOMAIN calls : CountId(tags, c) <= 1 /\ CountId(logs, c) <= 1
  /\ StaysSampled =>
       \A c \in DOMAIN calls :
         /\ (calls[c].op = "log_kv" /\ calls[c].done) => CountId(logs, c) = 1
         /\ (calls[c].op = "set_tag" /\ calls[c].done) =>
              CountId(tags, c) =
                IF calls[c].key # SAMPLING_PRIORITY \/ calls[c].out = "allowed"
                THEN 1 ELSE 0
  /\ \A i \in DOMAIN tags :
       /\ calls[tags[i].id].op = "set_tag"
       /\ tags[i].key = calls[tags[i].id].key
       /\ tags[i].value = calls[tags[i].id].val

C4_Order ==
  /\ tags' = tags \/ IsAppendOf(tags', tags)
  /\ logs' = logs \/ IsAppendOf(logs', logs)

\* C4, amended: on a sampled span every log_kv call and every set_tag call
\* on a key other than the sampling-priority key adds exactly one record,
\* and a set_tag call on the sampling-priority key adds one exactly when it
\* elevates the span; records are only ever added at the end, so they stay
\* in the order of the appends, none dropped, duplicated or reordered.
C4_OneRecordPerCallInOrder == []C4_Counts /\ [][C4_Order]_vars

\* two set_tag calls have returned on a sampled span, their tags stored in
\* the order of the appends (here the later call appended first).
C4_Witness ==
  /\ StaysSampled
  /\ Len(tags) = 2 /\ tags[1].id = 2 /\ tags[2].id = 1
  /\ \A c \in DOMAIN calls : calls[c].done

(* ------------------------------------------------------------------ C5 *)
\* C5 as stated: on a span created unsampled the tag and log sequences stay
\* empty whatever is called.
C5_Original == ~FlagsSampled(flags0) => tags = <<>> /\ logs = <<>>

\* C5, amended: on a span created unsampled the tag and log sequences stay
\* empty as long as no set_tag call on the sampling-priority key has
\* elevated the span (a non-zero value granted by is_debug_allowed).
C5_UnsampledKeepsNothing ==
  (~FlagsSampled(flags0) /\ NeverElevated) => tags = <<>> /\ logs = <<>>

\* a set_tag call and another call have returned on the unsampled span.
C5_Witness ==
  /\ ~FlagsSampled(flags0) /\ NeverElevated
  /\ \E c \in CallsWith("set_tag", "unsampled") : calls[c].done
  /\ \E c \in DOMAIN calls : calls[c].op # "set_tag" /\ calls[c].done

(* ------------------------------------------------------------------ C6 *)
\* every call issued so far is a set_tag on an ordinary key, and has
\* returned
OnlyOrdinarySetTags ==
  \A c \in DOMAIN calls :
    calls[c].op = "set_tag" /\ calls[c].key # SAMPLING_PRIORITY /\ calls[c].done

\* C6: when the threads each call set_tag once with an ordinary key on a
\* sampled span, concurrently, then once all have returned the tag sequence
\* has one record per call: its length is the number of calls and each
\* call's tag is in it exactly once.
C6_ConcurrentSetTag ==
  (FlagsSampled(flags0) /\ OnlyOrdinarySetTags) =>
    /\ Len(tags) = Len(calls)
    /\ \A c \in DOMAIN calls :
         /\ CountId(tags, c) = 1
         /\ \E i \in DOMAIN tags :
              tags[i] = MakeTag(calls[c].key, calls[c].val, c)

\* as many set_tag calls as there are threads ran at once and have
\* returned; the call issued last appended first.
C6_Witness ==
  /\ FlagsSampled(flags0) /\ OnlyOrdinarySetTags
  /\ Len(calls) = NThreads /\ Len(tags) = NThreads
  /\ tags[1].id = NThreads

(* ------------------------------------------------------------------ C7 *)
\* thread t executes line 104 in this step, with this value
AtPriority(t, v) ==
  pc[t] = "st_prio" /\ pc'[t] # "st_prio" /\ frame[t].val = v

C7_Step ==
  \A t \in Threads :
    /\ (AtPriority(t, StrV(<<"0">>)) /\ IsSampled /\ ~IsDebug) =>
         /\ ~IsSampled' /\ ~IsDebug'
         /\ ~FlagsSampled(ctxs'[context].flags)
         /\ ~FlagsDebug(ctxs'[context].flags)
         /\ pc'[t] = "st_exit" /\ frame'[t].exc = "none"
         /\ tags' = tags
    /\ (pc[t] = "st_exit" /\ pc'[t] # "st_exit"
          /\ calls[frame[t].cid].out = "zero") =>
         tags' = tags /\ ctxs' = ctxs /\ context' = context /\ pc'[t] = "idle"

\* C7: set_tag with the sampling-priority key and the value "0" on a
\* sampled, non-debug span clears the SAMPLED and DEBUG bits of the
\* context's flags, so that is_sampled() is false afterwards, and the call
\* returns without appending a tag.
C7_ZeroClearsFlags == [][C7_Step]_vars

\* such a call has returned on a span created sampled and not debug.
C7_Witness ==
  /\ flags0 = SAMPLED_FLAG
  /\ \E c \in CallsWith("set_tag", "zero") :
       calls[c].done /\ calls[c].val = StrV(<<"0">>)
  /\ Len(calls) = 1 /\ ~IsSampled /\ ~IsDebug /\ tags = <<>>

(* ------------------------------------------------------------------ C8 *)
C8_Step ==
  \A t \in Threads :
    /\ (pc[t] = "st_prio" /\ pc'[t] # "st_prio" /\ NonZero(frame[t].val)
          /\ IsDebug) =>
         /\ ctxs' = ctxs /\ context' = context
         /\ tags' = tags
         /\ pc'[t] = "st_exit" /\ frame'[t].exc = "none"
         /\ calls'[frame[t].cid].out = "debug_guard"
    /\ (pc[t] = "st_exit" /\ pc'[t] # "st_exit"
          /\ calls[frame[t].cid].out = "debug_guard") =>
         tags' = tags /\ ctxs' = ctxs /\ context' = context /\ pc'[t] = "idle"

\* C8: set_tag with the sampling-priority key and a non-zero value on a
\* span that is in debug mode leaves the flags as they are, whatever
\* is_debug_allowed would answer, and goes on to return without appending a
\* tag.
C8_DebugNotReElevated == [][C8_Step]_vars

\* such a call has returned on a span in debug mode.
C8_Witness ==
  /\ FlagsDebug(flags0)
  /\ \E c \in CallsWith("set_tag", "debug_guard") :
       calls[c].done /\ NonZero(calls[c].val)
  /\ Ctx.flags = flags0 /\ tags = <<>>

(* ------------------------------------------------------------------ C9 *)
\* positions of set_baggage_item after the swap of line 155
AfterSwap == {"sb_exit", "sb_samp", "sb_log", "log_lock", "log_app", "log_exit"}

\* C9 as stated: from the swap until set_baggage_item(k, v) returns, with
\* no other baggage writer at work, get_baggage_item(k) is v and the
\* context is another object than at the call; once the audit record is
\* appended it is the call's only record, and it has the override entry
\* exactly when a previous value for k existed (get_baggage_item(k) was not
\* None).
C9_Original ==
  \A t \in Threads :
    (frame[t].op = "set_baggage_item" /\ ~frame[t].race) =>
      /\ pc[t] \in AfterSwap =>
           /\ GetBaggageItem(frame[t].key) = frame[t].val
           /\ context # frame[t].octx
      /\ pc[t] = "log_exit" =>
           /\ CountId(logs, frame[t].cid) = 1
           /\ \A i \in DOMAIN logs :
                logs[i].id = frame[t].cid =>
                  /\ logs[i].event = "baggage"
                  /\ logs[i].key = frame[t].key
                  /\ logs[i].value = frame[t].val
                  /\ logs[i].override = (frame[t].prev # NoneV)

(* ----------------------------------------------------------------- C10 *)
\* the no-op endings of a set_tag call on the sampling-priority key
NoOpPaths == {"debug_guard", "value_error"}

\* C10 as stated: a set_tag call on the sampling-priority key with a value
\* that is not an integer (int(value) fails) raises nothing: once past line
\* 104 it has taken a no-op path, no exception is pending, and it has
\* stored no tag.
C10_Original ==
  /\ \A t \in Threads : frame[t].exc = "none"
  /\ \A c \in DOMAIN calls :
       (calls[c].op = "set_tag" /\ calls[c].key = SAMPLING_PRIORITY
          /\ IntOf(calls[c].val).exc # "none") =>
         /\ calls[c].out \in NoOpPaths \cup {"running"}
         /\ CountId(tags, c) = 0

(* ----------------------------------------------------------------- C11 *)
\* C11 as stated: no step changes the flags or the baggage of a context
\* object that exists.
C11_Original == [][\A i \in DOMAIN ctxs : ctxs'[i] = ctxs[i]]_vars

C11_Step ==
  \A i \in DOMAIN ctxs :
    /\ ctxs'[i].baggage = ctxs[i].baggage
    /\ ctxs'[i].flags # ctxs[i].flags =>
         /\ i = context
         /\ \E t \in Threads :
              /\ pc[t] = "st_prio" /\ pc'[t] # "st_prio"
              /\ frame[t].key = SAMPLING_PRIORITY
              /\ update_lock = t

\* C11, amended: no Span operation changes the baggage of an existing
\* context object, and the flags of an existing context object are changed
\* only by set_tag on the sampling-priority key, which rewrites the flags
\* of the current context in place while holding the lock; a context
\* snapshot keeps its baggage, and keeps its flags across set_baggage_item,
\* log_kv, finish, set_operation_name and set_tag on other keys.
C11_ContextChangesOnlyByPriority == [][C11_Step]_vars

\* a baggage update has replaced the context and left the baggage of the
\* first context object as it was created, while a sampling-priority
\* set_tag has rewritten the flags of that first object.
C11_Witness ==
  /\ Len(ctxs) = 2 /\ context = 2
  /\ ctxs[1].baggage = EmptyBaggage /\ ctxs[1].flags # flags0
  /\ Ctx.baggage # EmptyBaggage
  /\ \A c \in DOMAIN calls : calls[c].done

(* ----------------------------------------------------------------- C12 *)
C12_Step ==
  \A t \in Threads :
    /\ (pc[t] = "st_prio" /\ pc'[t] # "st_prio"
          /\ NonZero(frame[t].val) /\ ~IsDebug) =>
         /\ frame'[t].asked \in {"yes", "no"}
         /\ context' = context /\ tags' = tags
         /\ frame'[t].asked = "yes" =>
              /\ ctxs'[context].flags =
                   BitOr(Ctx.flags, BitOr(SAMPLED_FLAG, DEBUG_FLAG))
              /\ IsSampled' /\ IsDebug'
              /\ pc'[t] = "st_samp"
         /\ frame'[t].asked = "no" =>
              /\ ctxs' = ctxs
              /\ pc'[t] = "st_exit"
    /\ (pc[t] = "st_exit" /\ pc'[t] # "st_exit" /\ frame[t].asked = "no") =>
         tags' = tags /\ ctxs' = ctxs /\ context' = context /\ pc'[t] = "idle"
    /\ (pc[t] = "st_samp" /\ pc'[t] # "st_samp" /\ frame[t].asked = "yes") =>
         /\ IsAppendOf(tags', tags)
         /\ tags'[Len(tags')].key = SAMPLING_PRIORITY
         /\ ctxs' = ctxs /\ context' = context

\* C12: set_tag on the sampling-priority key with a value that parses to a
\* non-zero integer, on a span that is not debug, sets both the SAMPLED and
\* the DEBUG bit exactly when the tracer's is_debug_allowed answers true
\* (and then stores the tag); when it answers false the flags stay as they
\* were and the call stores no tag.
C12_NonZeroElevatesIffAllowed == [][C12_Step]_vars

\* one call was refused by the tracer and left no trace, another was
\* allowed and elevated the span.
C12_Witness ==
  /\ \E c \in DOMAIN calls : calls[c].done /\ calls[c].out = "denied"
  /\ \E c \in DOMAIN calls : calls[c].done /\ calls[c].out = "allowed"
  /\ Len(tags) = 1 /\ IsSampled /\ IsDebug

(* ----------------------------------------------------------------- C13 *)
ParsesToZero(v) == IntOf(v).exc = "none" /\ IntOf(v).n = 0

\* C13 as stated: set_tag on the sampling-priority key with a value that
\* parses to the integer zero, given as 0 or as "0", clears both the SAMPLED
\* and the DEBUG bit from every prior flag state, a debug span included.
C13_Original ==
  [][\A t \in Threads :
       (pc[t] = "st_prio" /\ pc'[t] # "st_prio"
          /\ ParsesToZero(frame[t].val)) =>
         /\ ~IsSampled' /\ ~IsDebug'
         /\ ctxs'[context].flags =
              BitClear(Ctx.flags, BitOr(SAMPLED_FLAG, DEBUG_FLAG))]_vars

(* ----------------------------------------------------------------- C14 *)
\* C14: at every invocation of tracer.report_span the span's finished flag
\* is already true, its end_time is already set, and the invoking thread
\* does not hold update_lock; the invocation itself changes none of them.
C14_ReportAfterFlipOutsideLock ==
  [][reports' # reports =>
       \E t \in Threads :
         /\ pc[t] = "fin_report" /\ pc'[t] = "idle"
         /\ finished /\ end_time # NoTime /\ update_lock # t
         /\ finished' /\ end_time' = end_time /\ update_lock' = update_lock]_vars

\* the span has been reported while another thread was holding the lock.
C14_Witness ==
  /\ reports = 1 /\ finished /\ end_time # NoTime
  /\ update_lock # 0
  /\ \E c \in DOMAIN calls : calls[c].op = "finish" /\ calls[c].out = "reported"

(* ----------------------------------------------------------------- C15 *)
\* the positions inside a `with self.update_lock` block.
InsideWith ==
  {"son_set", "son_exit", "fin_chk", "fin_end", "fin_exit",
   "st_prio", "st_samp", "st_exit", "log_app", "log_exit",
   "sb_swap", "sb_exit"}

Holds(t) == pc[t] \in InsideWith

C15_Mutex ==
  /\ \A t, u \in Threads : (Holds(t) /\ Holds(u)) => t = u
  /\ \A t \in Threads : Holds(t) <=> update_lock = t

C15_Write ==
  <<operation_name, tags, logs, finished, end_time>>'
      # <<operation_name, tags, logs, finished, end_time>> =>
    \E t \in Threads :
      /\ Holds(t) /\ update_lock = t /\ update_lock' = t
      /\ pc'[t] # pc[t]
      /\ \A u \in Threads \ {t} : pc'[u] = pc[u] /\ ~Holds(u)

\* C15: after construction every write to operation_name, the tag
\* sequence, the log sequence, the finished flag and end_time is a step of
\* a thread that is inside a with-block and holds update_lock before and
\* after the write, and at most one thread is inside a with-block of this
\* span at any time.
C15_WritesUnderLock == [](C15_Mutex) /\ [][C15_Write]_vars

\* a thread has written a guarded field and is still inside its with-block
\* while the other thread waits for the lock.
C15_Witness ==
  \E t, u \in Threads :
    /\ Holds(t) /\ pc[u] \in {"son_lock", "fin_lock", "st_lock", "log_lock",
                              "sb_lock"}
    /\ pc[t] \in {"son_exit", "st_exit", "log_exit", "fin_exit"}
    /\ calls[frame[t].cid].out \notin {"already", "unsampled"}
    /\ calls[frame[t].cid].op # "set_tag" \/ Len(tags) > 0

(* ----------------------------------------------------------------- C16 *)
C16_Absorbing ==
  /\ finished => finished'
  /\ end_time # NoTime => end_time' = end_time

\* C16 as stated: finished never goes back to false, end_time is set
\* exactly when finished is true in every reachable state, and end_time
\* never changes once set.
C16_Original ==
  []((end_time # NoTime) <=> finished) /\ [][C16_Absorbing]_vars

C16_State ==
  /\ end_time # NoTime => finished
  /\ (finished /\ end_time = NoTime) =>
       \E t \in Threads : pc[t] = "fin_end" /\ update_lock = t
  /\ update_lock = 0 => ((end_time # NoTime) <=> finished)

\* C16, amended: finished never goes from true back to false and end_time,
\* once set, is never changed, further finish calls with another explicit
\* time included; end_time is set only on a finished span, and a finished
\* span has its end_time set except while the finishing thread, holding
\* the lock, is between the two assignments of finish; whenever the lock is
\* free end_time is set exactly when finished is true.
C16_FinishedAbsorbing == [](C16_State) /\ [][C16_Absorbing]_vars

\* a second finish with another explicit time found the span finished and
\* is about to return with end_time as the first finish set it.
C16_Witness ==
  \E t \in Threads :
    /\ pc[t] = "fin_exit" /\ calls[frame[t].cid].out = "already"
    /\ frame[t].tm # NoTime /\ frame[t].tm # end_time
    /\ finished /\ end_time # NoTime

(* ----------------------------------------------------------------- C17 *)
\* C17 as stated: in every interleaving of finish with set_tag calls on the
\* sampling-priority key, the span is sampled at the moment finish invokes
\* tracer.report_span on it.
C17_Original ==
  [][(reports' # reports /\ \A c \in DOMAIN calls :
                              \/ calls[c].op = "finish"
                              \/ /\ calls[c].op = "set_tag"
                                 /\ calls[c].key = SAMPLING_PRIORITY)
       => IsSampled]_vars

(* ----------------------------------------------------------------- C18 *)
\* C18 as stated: when two set_baggage_item calls with distinct keys have
\* both returned, get_baggage_item returns for each key the value that was
\* set, in every interleaving.
C18_Original ==
  \A c, d \in DOMAIN calls :
    (/\ calls[c].op = "set_baggage_item" /\ calls[d].op = "set_baggage_item"
     /\ calls[c].key # calls[d].key
     /\ calls[c].done /\ calls[d].done) =>
      /\ GetBaggageItem(calls[c].key) = calls[c].val
      /\ GetBaggageItem(calls[d].key) = calls[d].val

(* ----------------------------------------------------------------- C19 *)
Both == BitOr(SAMPLED_FLAG, DEBUG_FLAG)

\* C19 as stated: when a set_tag call on the sampling-priority key that
\* changed the flags (cleared them, or elevated them to SAMPLED|DEBUG) and
\* a set_baggage_item call have both returned, the span's flags are the
\* ones that set_tag call produced, in every interleaving.
C19_Original ==
  \A c, d \in DOMAIN calls :
    (/\ calls[c].op = "set_tag" /\ calls[c].key = SAMPLING_PRIORITY
     /\ calls[d].op = "set_baggage_item"
     /\ calls[c].done /\ calls[d].done) =>
      /\ (calls[c].out = "zero" /\ BitAnd(flags0, Both) # 0) =>
           BitAnd(Ctx.flags, Both) = 0
      /\ (calls[c].out = "allowed" /\ BitAnd(flags0, Both) # Both) =>
           BitAnd(Ctx.flags, Both) = Both

(* ----------------------------------------------------------------- C20 *)
LockWaits == {"son_lock", "fin_lock", "st_lock", "log_lock", "sb_lock"}

C20_Safe ==
  \A t \in Threads :
    /\ pc[t] \in LockWaits => update_lock # t
    /\ pc[t] \notin InsideWith => update_lock # t
    /\ pc[t] # "idle" => ENABLED Step(t) \/ update_lock \in Threads \ {t}

C20_Returns ==
  \A c \in 1..MaxCalls :
    (Len(calls) >= c) ~> (Len(calls) >= c /\ calls[c].done)

\* C20: no operation reaches an acquisition of update_lock while its own
\* thread holds it, a thread outside a with-block never holds the lock (the
\* normal exits, the early returns and the raising path all release it), a
\* thread inside a call is blocked only by a lock another thread holds, and
\* under fair scheduling every call that was issued eventually returns.
C20_NoDeadlock == [](C20_Safe) /\ C20_Returns

\* every call has returned and the lock is free after a set_baggage_item
\* that took the lock twice (swap, then audit log) and a set_tag that left
\* its with-block by raising.
C20_Witness ==
  /\ Len(calls) = MaxCalls /\ \A c \in DOMAIN calls : calls[c].done
  /\ update_lock = 0 /\ \A t \in Threads : pc[t] = "idle"
  /\ \E c \in DOMAIN calls : calls[c].op = "set_baggage_item"
  /\ \E c \in DOMAIN calls : calls[c].out = "raised"
  /\ Len(logs) >= 1

====
